---- MODULE Spec2Model ----
(***************************************************************************)
(* A model of the DeadBasic interpreter (src/DeadBasic.py): the variable   *)
(* store, the three control contexts, the line executor of the REPL        *)
(* (execute_line) and the program-counter loop of the file runner          *)
(* (run_file), including the recursion of run_file through openfile.       *)
(*                                                                         *)
(* A source file is an input.  Its lines are drawn from Alphabet, one at a *)
(* time, when the runner first needs them (ReadLine / ReadEOF); a line     *)
(* that was drawn never changes afterwards, so every behaviour is the run  *)
(* of one fixed file.                                                      *)
(***************************************************************************)
EXTENDS Integers, Sequences, FiniteSets, TLC

VARIABLES
    vars,          \* self.vars: name -> [type, value]
    if_ctx,        \* self.if_ctx
    while_ctx,     \* self.while_ctx
    try_ctx,       \* self.try_ctx
    current_file,  \* self.current_file
    files,         \* the file system: name -> [lines, eof]
    stack,         \* the active run_file invocations, innermost last
    exc,           \* the exception in flight out of the innermost run_file
    phase,         \* "init" | "file" | "repl" | "done" | "failed"
    line_no,       \* repl(): the line counter of the prompt loop
    ev,            \* what the last executed line did
    passes,        \* how often the condition of the last loop has been true
    dispatched     \* file -> line number -> times the line reached dispatch

state == <<vars, if_ctx, while_ctx, try_ctx, current_file>>
allvars == <<vars, if_ctx, while_ctx, try_ctx, current_file, files, stack, exc,
             phase, line_no, ev, passes, dispatched>>

----------------------------------------------------------------------------
(* Bounds of the model. *)

\* Lines of source text that exist in the file system, all files together.
MaxLines == 4
\* Lines typed at the REPL prompt.
MaxReplLines == 3
\* Times the condition of one loop is found true before the run is cut off.
MaxPasses == 3
\* Lines of a program of loops (SpecLoop).
MaxLoopLines == 8

----------------------------------------------------------------------------
(* Values.  A Python value is an int/float or a str; both are kept in one  *)
(* record shape so that any two values can be compared.                    *)

NumV(k) == [isnum |-> TRUE, n |-> k, s |-> ""]
StrV(t) == [isnum |-> FALSE, n |-> 0, s |-> t]

\* Python's None for an optional string field.
None == "<None>"

\* The decimal literals int() accepts among the tokens of the model.
NumTable == {<<"0", 0>>, <<"1", 1>>, <<"2", 2>>, <<"3", 3>>}
IsIntText(t) == \E p \in NumTable : p[1] = t
IntOfText(t) == (CHOOSE p \in NumTable : p[1] = t)[2]

\* str.lower() on the head words of the model.
LowerTable == {<<"PrintText", "printtext">>, <<"ELSE", "else">>}
Lower(t) == IF \E p \in LowerTable : p[1] = t
            THEN (CHOOSE p \in LowerTable : p[1] = t)[2]
            ELSE t

\* str.strip('"') on the value texts of the model.
StripTable == {<<"\"q", "q">>}
StripQuotes(t) == IF \E p \in StripTable : p[1] = t
                  THEN (CHOOSE p \in StripTable : p[1] = t)[2]
                  ELSE t

RECURSIVE JoinWords(_)
JoinWords(ws) == IF ws = <<>> THEN ""
                 ELSE IF Len(ws) = 1 THEN ws[1]
                 ELSE ws[1] \o " " \o JoinWords(Tail(ws))

----------------------------------------------------------------------------
(* Errors. *)

NoExc == [kind |-> "", msg |-> ""]
SyntaxErr(m)   == [kind |-> "Syntax", msg |-> m]
RuntimeErr(m)  == [kind |-> "Runtime", msg |-> m]
\* Any Python exception that is not a DeadBasicError.
InternalErr(m) == [kind |-> "Internal", msg |-> m]

_fmt(s, lno, msg) == "[" \o s.current_file \o ":line " \o ToString(lno) \o "] " \o msg

----------------------------------------------------------------------------
(* The interpreter object: s = [vars, if_ctx, while_ctx, try_ctx,          *)
(* current_file].                                                          *)

NoIf    == [open |-> FALSE, cond_true |-> FALSE, in_else |-> FALSE]
NoWhile == [open |-> FALSE, start_pc |-> 0, cond_tokens |-> <<>>]
NoTry   == [open |-> FALSE, has_error |-> FALSE, in_catch |-> FALSE,
            err_name |-> None, err_msg |-> None]
EmptyStore == [nm \in {} |-> [type |-> "", value |-> StrV("")]]

NewInterp == [vars |-> EmptyStore, if_ctx |-> NoIf, while_ctx |-> NoWhile,
              try_ctx |-> NoTry, current_file |-> "<repl>"]

Self == [vars |-> vars, if_ctx |-> if_ctx, while_ctx |-> while_ctx,
         try_ctx |-> try_ctx, current_file |-> current_file]

SetVar(store, name, cell) ==
    [nm \in DOMAIN store \cup {name} |-> IF nm = name THEN cell ELSE store[nm]]

type_keywords == {"int", "long", "double", "str"}
commands == {"printtext", "showvars", "openfile", "add", "help", "subt", "div",
             "times", "sqrt", "input"}
header_keywords == {"if", "else", "endif", "while", "endwhile", "try", "catch",
                    "endtry"}

----------------------------------------------------------------------------
(* Lexer. *)

\* The words a comment line starts with: raw.startswith("#"), or the marker of
\* two backquotes, written "BQBQ" here.
CommentMarkers == {"#", "BQBQ"}
\* Words on which shlex.split raises ValueError (an unclosed quotation).
BadQuoted == {"\"oops"}

_detect_indent(line) == line.indent

\* Faulty variant: a comment line is not recognised.
IsBlankOrComment_only_empty(line) == line.words = <<>>

IsBlankOrComment(line) ==
    \/ line.words = <<>>
    \/ line.words[1] \in CommentMarkers

ShlexFails(line) ==
    /\ ~IsBlankOrComment(line)
    /\ \E i \in 1..Len(line.words) : line.words[i] \in BadQuoted

\* parse_tokens: the tokens of a line that lexes ([] for a blank or comment).
parse_tokens(line) == IF IsBlankOrComment(line) THEN <<>> ELSE line.words

head_of(line) == parse_tokens(line)[1]
head_l(line)  == Lower(head_of(line))
args_of(line) == Tail(parse_tokens(line))

----------------------------------------------------------------------------
(* Value resolution and the condition evaluator. *)

\* No token of the model contains "." or is wrapped in quotes after lexing, so
\* the float and the quote-stripping branches of _resolve are never taken.
_resolve(s, token) ==
    IF token \in DOMAIN s.vars THEN s.vars[token].value
    ELSE IF IsIntText(token) THEN NumV(IntOfText(token))
    ELSE StrV(token)

IsNumeric(v) == v.isnum \/ IsIntText(v.s)
_to_number(v) == IF v.isnum THEN v.n ELSE IntOfText(v.s)

_truthy(v) == IF v.isnum THEN v.n # 0 ELSE v.s # ""

CondOk(b)   == [exc |-> NoExc, val |-> b]
CondErr(e)  == [exc |-> e, val |-> FALSE]

OrderingOps == {"<", ">", "<=", ">="}

_eval_condition_tokens(s, tokens, lno) ==
    IF tokens = <<>> THEN CondErr(SyntaxErr(_fmt(s, lno, "condition required")))
    ELSE IF Lower(tokens[1]) = "not" THEN
        IF Len(tokens) # 2
        THEN CondErr(SyntaxErr(_fmt(s, lno, "'not' expects exactly one value")))
        ELSE CondOk(~_truthy(_resolve(s, tokens[2])))
    ELSE IF Len(tokens) # 3 THEN
        CondErr(SyntaxErr(_fmt(s, lno,
            "condition must be: <lhs> <op> <rhs> or 'not <value>'")))
    ELSE
        LET lhs == _resolve(s, tokens[1])
            op  == tokens[2]
            rhs == _resolve(s, tokens[3])
        IN  IF op = "=" THEN CondOk(lhs = rhs)
            ELSE IF op = "!=" THEN CondOk(lhs # rhs)
            ELSE IF ~IsNumeric(lhs)
                 THEN CondErr(RuntimeErr(_fmt(s, lno, "left side is not numeric")))
            ELSE IF ~IsNumeric(rhs)
                 THEN CondErr(RuntimeErr(_fmt(s, lno, "right side is not numeric")))
            ELSE IF op = "<"  THEN CondOk(_to_number(lhs) <  _to_number(rhs))
            ELSE IF op = ">"  THEN CondOk(_to_number(lhs) >  _to_number(rhs))
            ELSE IF op = "<=" THEN CondOk(_to_number(lhs) <= _to_number(rhs))
            ELSE IF op = ">=" THEN CondOk(_to_number(lhs) >= _to_number(rhs))
            ELSE CondErr(SyntaxErr(_fmt(s, lno, "unknown operator '" \o op \o "'")))

\* Faulty variant: the else flag is ignored.
if_body_ignoring_else(s) == s.if_ctx.open /\ s.if_ctx.cond_true

_should_execute_if_body_line(s) ==
    /\ s.if_ctx.open
    /\ \/ ~s.if_ctx.in_else /\ s.if_ctx.cond_true
       \/ s.if_ctx.in_else /\ ~s.if_ctx.cond_true

\* Faulty variant: the try section keeps running after an error.
try_body_ignoring_error(s) == s.try_ctx.open /\ ~s.try_ctx.in_catch

_should_execute_try_body_line(s) ==
    /\ s.try_ctx.open
    /\ ~s.try_ctx.in_catch /\ ~s.try_ctx.has_error

_should_execute_catch_body_line(s) ==
    /\ s.try_ctx.open
    /\ s.try_ctx.in_catch /\ s.try_ctx.has_error

\* str(msg) of the captured message, "" when none was captured.
\* Faulty variant: the error variable is never bound.
_enter_catch_binding_nothing(s) == s

_enter_catch_if_needed(s) ==
    IF s.try_ctx.open /\ s.try_ctx.in_catch
       /\ s.try_ctx.err_name # None /\ s.try_ctx.err_name # ""
    THEN [s EXCEPT !.vars = SetVar(s.vars, s.try_ctx.err_name,
              [type |-> "str",
               value |-> StrV(IF s.try_ctx.err_msg # None
                              THEN s.try_ctx.err_msg ELSE "")])]
    ELSE s

----------------------------------------------------------------------------
(* Commands.  A command returns [s, exc, call]: the interpreter after it,  *)
(* the exception it raised (NoExc for none) and, for openfile, the file    *)
(* whose run_file it has entered ("" for none).                            *)

Ok(s)        == [s |-> s, exc |-> NoExc, call |-> ""]
Raise(s, e)  == [s |-> s, exc |-> e, call |-> ""]
Enter(s, f)  == [s |-> s, exc |-> NoExc, call |-> f]

\* The files path.exists() finds.
ExistingFiles == {"main.ba", "inc.ba"}

\* The texts the user may type at an input() prompt.
RawInputs == {"1", "2", "3", "abc"}

\* Faulty variant: the contexts of the caller stay as they are.
ResetContexts_keeping(s) == s

ResetContexts(s) ==
    [s EXCEPT !.if_ctx = NoIf, !.while_ctx = NoWhile, !.try_ctx = NoTry]

\* run_file up to its loop: the existence test, current_file, the reset.
run_file_enter(s, path) ==
    IF path \notin ExistingFiles
    THEN Raise(s, RuntimeErr(_fmt(s, 0, "file not found: " \o path)))
    ELSE Enter([ResetContexts(s) EXCEPT !.current_file = path], path)

cmd_openfile(s, args, lno) ==
    IF args = <<>>
    THEN Raise(s, SyntaxErr(_fmt(s, lno, "openfile needs a filename")))
    ELSE run_file_enter(ResetContexts(s), args[1])

cmd_printtext(s, args, lno) ==
    IF args = <<>>
    THEN Raise(s, SyntaxErr(_fmt(s, lno, "printtext needs text or var names")))
    ELSE Ok(s)

cmd_showvars(s, args, lno) == Ok(s)

\* help is a staticmethod without parameters, called with (args, line_no).
cmd_help(s, args, lno) ==
    Raise(s, InternalErr("DeadBasic.help() takes 0 positional arguments but 2 were given"))

\* add, subt and times: two numeric arguments, a printed result.
cmd_arith(s, args, lno, needs) ==
    IF Len(args) # 2 THEN Raise(s, SyntaxErr(_fmt(s, lno, needs)))
    ELSE IF ~IsNumeric(_resolve(s, args[1]))
         THEN Raise(s, RuntimeErr(_fmt(s, lno, "first argument is not numeric")))
    ELSE IF ~IsNumeric(_resolve(s, args[2]))
         THEN Raise(s, RuntimeErr(_fmt(s, lno, "second argument is not numeric")))
    ELSE Ok(s)

cmd_div(s, args, lno) ==
    LET r == cmd_arith(s, args, lno, "Divide needs exactly 2 numbers")
    IN  IF r.exc # NoExc THEN r
        ELSE IF _to_number(_resolve(s, args[2])) = 0
             THEN Raise(s, RuntimeErr(_fmt(s, lno, "You cannot divide by 0.")))
        ELSE Ok(s)

cmd_squareroot(s, args, lno) ==
    IF Len(args) > 1
    THEN Raise(s, SyntaxErr(_fmt(s, lno, "Square root only needs 1 number")))
    ELSE IF args = <<>> THEN Raise(s, InternalErr("list index out of range"))
    ELSE IF ~IsNumeric(_resolve(s, args[1]))
         THEN Raise(s, RuntimeErr(_fmt(s, lno, "first argument is not numeric")))
    ELSE IF _to_number(_resolve(s, args[1])) < 0
         THEN Raise(s, InternalErr("math domain error"))
    ELSE Ok(s)

cmd_input(s, args, lno, raw) ==
    IF Len(args) # 2
    THEN Raise(s, SyntaxErr(_fmt(s, lno, "input needs: <type> <varname>")))
    ELSE
        LET vtype == args[1]
            name  == args[2]
            bind(v) == Ok([s EXCEPT !.vars =
                              SetVar(s.vars, name, [type |-> vtype, value |-> v])])
        IN  IF vtype = "int" THEN
                IF IsIntText(raw) THEN bind(NumV(IntOfText(raw)))
                ELSE Raise(s, RuntimeErr(_fmt(s, lno, "'" \o raw \o "' is not an integer")))
            ELSE IF vtype = "long" THEN
                IF IsIntText(raw) THEN bind(NumV(IntOfText(raw)))
                ELSE Raise(s, RuntimeErr(_fmt(s, lno, "'" \o raw \o "' is not a long integer")))
            ELSE IF vtype = "double" THEN
                IF IsIntText(raw) THEN bind(NumV(IntOfText(raw)))
                ELSE Raise(s, RuntimeErr(_fmt(s, lno, "'" \o raw \o "' is not a double")))
            ELSE IF vtype = "str" THEN bind(StrV(raw))
            ELSE Raise(s, SyntaxErr(_fmt(s, lno, "unknown type: " \o vtype)))

\* Faulty variant: a declaration replaces the cell whatever its type was.
cmd_declare_retyping(s, vtype, args, lno) ==
    IF Len(args) < 2
    THEN Raise(s, SyntaxErr(_fmt(s, lno, vtype \o " needs: <name> <value>")))
    ELSE
        LET name      == args[1]
            value_str == JoinWords(Tail(args))
            store(v) ==
                Ok([s EXCEPT !.vars =
                       SetVar(s.vars, name, [type |-> vtype, value |-> v])])
        IN  IF vtype \in {"int", "long"} THEN
                IF IsIntText(value_str) THEN store(NumV(IntOfText(value_str)))
                ELSE Raise(s, RuntimeErr(_fmt(s, lno,
                         "'" \o value_str \o "' is not an integer")))
            ELSE IF vtype = "double" THEN
                IF IsIntText(value_str) THEN store(NumV(IntOfText(value_str)))
                ELSE Raise(s, RuntimeErr(_fmt(s, lno,
                         "'" \o value_str \o "' is not a double")))
            ELSE IF vtype = "str" THEN store(StrV(StripQuotes(value_str)))
            ELSE Raise(s, SyntaxErr(_fmt(s, lno, "unknown type: " \o vtype)))

cmd_declare(s, vtype, args, lno) ==
    IF Len(args) < 2
    THEN Raise(s, SyntaxErr(_fmt(s, lno, vtype \o " needs: <name> <value>")))
    ELSE
        LET name      == args[1]
            value_str == JoinWords(Tail(args))
            store(v) ==
                IF name \in DOMAIN s.vars /\ s.vars[name].type # vtype
                THEN Raise(s, RuntimeErr(_fmt(s, lno,
                         "type mismatch: " \o name \o " is " \o s.vars[name].type
                         \o ", not " \o vtype)))
                ELSE Ok([s EXCEPT !.vars =
                            SetVar(s.vars, name, [type |-> vtype, value |-> v])])
        IN  IF vtype \in {"int", "long"} THEN
                IF IsIntText(value_str) THEN store(NumV(IntOfText(value_str)))
                ELSE Raise(s, RuntimeErr(_fmt(s, lno,
                         "'" \o value_str \o "' is not an integer")))
            ELSE IF vtype = "double" THEN
                IF IsIntText(value_str) THEN store(NumV(IntOfText(value_str)))
                ELSE Raise(s, RuntimeErr(_fmt(s, lno,
                         "'" \o value_str \o "' is not a double")))
            ELSE IF vtype = "str" THEN store(StrV(StripQuotes(value_str)))
            ELSE Raise(s, SyntaxErr(_fmt(s, lno, "unknown type: " \o vtype)))

\* self.commands[head_l](args, line_no)
RunCommand(s, hl, args, lno, raw) ==
    CASE hl = "printtext" -> cmd_printtext(s, args, lno)
      [] hl = "showvars"  -> cmd_showvars(s, args, lno)
      [] hl = "openfile"  -> cmd_openfile(s, args, lno)
      [] hl = "add"       -> cmd_arith(s, args, lno, "add needs exactly 2 numbers")
      [] hl = "subt"      -> cmd_arith(s, args, lno, "Subtract needs exactly 2 numbers")
      [] hl = "times"     -> cmd_arith(s, args, lno, "Multiply needs exactly 2 numbers")
      [] hl = "div"       -> cmd_div(s, args, lno)
      [] hl = "sqrt"      -> cmd_squareroot(s, args, lno)
      [] hl = "help"      -> cmd_help(s, args, lno)
      [] hl = "input"     -> cmd_input(s, args, lno, raw)

\* The dispatch every statement position of both runners repeats: a
\* declaration, else an unknown command, else the command.
Dispatch(s, line, lno, raw) ==
    IF head_l(line) \in type_keywords
    THEN cmd_declare(s, head_l(line), args_of(line), lno)
    ELSE IF head_l(line) \notin commands
    THEN Raise(s, SyntaxErr(_fmt(s, lno, "unknown command: " \o head_of(line))))
    ELSE RunCommand(s, head_l(line), args_of(line), lno, raw)

----------------------------------------------------------------------------
(* The outcome of one line: the interpreter after it, the exception it     *)
(* raises out of its runner (NoExc for none), the file whose run_file it   *)
(* has entered ("" for none) with the kind of call site ("try" inside the  *)
(* try statement of a try-section body line, else "plain"), the program    *)
(* counter after it, and what it did:                                      *)
(*   "noop"     blank line or comment                                      *)
(*   "header"   a control header took effect                               *)
(*   "exec"     a declaration or command ran to its end                    *)
(*   "call"     openfile entered the run of the included file              *)
(*   "skip"     a body line of a section that is not running               *)
(*   "absorbed" a try-section body line failed and the error was recorded  *)
(*   "raise"    the line raised an error out of its runner                 *)
(* ran: the line reached the declaration/command dispatch.                 *)

Res(s, e, c, st, p, k, r) ==
    [s |-> s, exc |-> e, call |-> c, site |-> st, pc |-> p, kind |-> k, ran |-> r]

Went(s, p, k)  == Res(s, NoExc, "", "", p, k, FALSE)
Fail(s, e, p)  == Res(s, e, "", "", p, "raise", FALSE)

\* The two except clauses of the try-section body: item assignment on
\* self.try_ctx, which raises TypeError when self.try_ctx is None.
TryHandler(s, e, p) ==
    IF ~s.try_ctx.open
    THEN Res(s, InternalErr("'NoneType' object does not support item assignment"),
             "", "", p, "raise", TRUE)
    ELSE Res([s EXCEPT !.try_ctx.has_error = TRUE,
                       !.try_ctx.err_msg =
                           IF e.kind = "Internal" THEN "Internal error: " \o e.msg
                           ELSE e.msg],
             NoExc, "", "", p + 1, "absorbed", TRUE)

\* A statement inside the try statement of a try-section body line.
TryStmt(s, line, lno, raw, p) ==
    LET r == Dispatch(s, line, lno, raw)
    IN  IF r.exc # NoExc THEN TryHandler(r.s, r.exc, p)
        ELSE IF r.call # "" THEN Res(r.s, NoExc, r.call, "try", p, "call", TRUE)
        ELSE Res(r.s, NoExc, "", "", p + 1, "exec", TRUE)

\* Faulty variant: every statement position absorbs like the try section.
PlainStmt_absorbing(s, line, lno, raw, p) == TryStmt(s, line, lno, raw, p)

\* A statement position outside any try statement: lines 595-603, 615-622,
\* 626-633, 656-663 of run_file and their twins in execute_line.
PlainStmt(s, line, lno, raw, p) ==
    LET r == Dispatch(s, line, lno, raw)
    IN  IF r.exc # NoExc THEN Res(r.s, r.exc, "", "", p, "raise", TRUE)
        ELSE IF r.call # "" THEN Res(r.s, NoExc, r.call, "plain", p, "call", TRUE)
        ELSE Res(r.s, NoExc, "", "", p + 1, "exec", TRUE)

----------------------------------------------------------------------------
(* run_file: one iteration of its loop, by branch.  pc is zero-based and   *)
(* line_no = pc + 1.                                                       *)

\* Faulty variant: the scan stops at an endwhile of any indent.
IsEndwhileLine_any_indent(line) ==
    /\ ~IsBlankOrComment(line)
    /\ Lower(parse_tokens(line)[1]) = "endwhile"

IsEndwhileLine(line) ==
    /\ ~IsBlankOrComment(line)
    /\ _detect_indent(line) = 0
    /\ Lower(parse_tokens(line)[1]) = "endwhile"

\* The forward scan of a false while: the first index (one-based) from
\* `from` on whose line stops the scan, 0 when no line read so far does.
ScanStop(lines, from) ==
    LET hits == {k \in from..Len(lines) :
                    ShlexFails(lines[k]) \/ IsEndwhileLine(lines[k])}
    IN  IF hits = {} THEN 0 ELSE CHOOSE k \in hits : \A h \in hits : k <= h

\* Faulty variant: the header records the line after itself as start_pc.
rf_while_recording_next(s, line, pc, lines) ==
    LET lno == pc + 1
        c   == _eval_condition_tokens(s, args_of(line), lno)
        j   == ScanStop(lines, pc + 2)
    IN  IF s.while_ctx.open
        THEN Fail(s, SyntaxErr(_fmt(s, lno, "Nested WHILE not supported")), pc)
        ELSE IF s.if_ctx.open
        THEN Fail(s, SyntaxErr(_fmt(s, lno,
                 "WHILE cannot start inside an open IF; close IF first")), pc)
        ELSE IF s.try_ctx.open
        THEN Fail(s, SyntaxErr(_fmt(s, lno,
                 "WHILE cannot start inside an open TRY; close TRY first")), pc)
        ELSE IF c.exc # NoExc THEN Fail(s, c.exc, pc)
        ELSE IF ~c.val THEN
            IF j = 0
            THEN Fail(s, SyntaxErr(_fmt(s, lno, "missing 'endwhile' for this 'while'")), pc)
            ELSE IF ShlexFails(lines[j])
            THEN Fail(s, InternalErr("No closing quotation"), pc)
            ELSE Went(s, j, "header")
        ELSE Went([s EXCEPT !.while_ctx =
                       [open |-> TRUE, start_pc |-> pc + 1, cond_tokens |-> args_of(line)]],
                  pc + 1, "header")

rf_while(s, line, pc, lines) ==
    LET lno == pc + 1
        c   == _eval_condition_tokens(s, args_of(line), lno)
        j   == ScanStop(lines, pc + 2)
    IN  IF s.while_ctx.open
        THEN Fail(s, SyntaxErr(_fmt(s, lno, "Nested WHILE not supported")), pc)
        ELSE IF s.if_ctx.open
        THEN Fail(s, SyntaxErr(_fmt(s, lno,
                 "WHILE cannot start inside an open IF; close IF first")), pc)
        ELSE IF s.try_ctx.open
        THEN Fail(s, SyntaxErr(_fmt(s, lno,
                 "WHILE cannot start inside an open TRY; close TRY first")), pc)
        ELSE IF c.exc # NoExc THEN Fail(s, c.exc, pc)
        ELSE IF ~c.val THEN
            IF j = 0
            THEN Fail(s, SyntaxErr(_fmt(s, lno, "missing 'endwhile' for this 'while'")), pc)
            ELSE IF ShlexFails(lines[j])
            THEN Fail(s, InternalErr("No closing quotation"), pc)
            ELSE Went(s, j, "header")
        ELSE Went([s EXCEPT !.while_ctx =
                       [open |-> TRUE, start_pc |-> pc, cond_tokens |-> args_of(line)]],
                  pc + 1, "header")

\* Faulty variant: a true condition jumps back onto the header itself.
rf_endwhile_to_header(s, line, pc) ==
    LET c == _eval_condition_tokens(s, s.while_ctx.cond_tokens, pc + 1)
    IN  IF ~s.while_ctx.open
        THEN Fail(s, SyntaxErr(_fmt(s, pc + 1, "'endwhile' without matching 'while'")), pc)
        ELSE IF c.exc # NoExc THEN Fail(s, c.exc, pc)
        ELSE IF c.val THEN Went(s, s.while_ctx.start_pc, "header")
        ELSE Went([s EXCEPT !.while_ctx = NoWhile], pc + 1, "header")

rf_endwhile(s, line, pc) ==
    LET lno == pc + 1
        c   == _eval_condition_tokens(s, s.while_ctx.cond_tokens, lno)
    IN  IF ~s.while_ctx.open
        THEN Fail(s, SyntaxErr(_fmt(s, lno, "'endwhile' without matching 'while'")), pc)
        ELSE IF c.exc # NoExc THEN Fail(s, c.exc, pc)
        ELSE IF c.val THEN Went(s, s.while_ctx.start_pc + 1, "header")
        ELSE Went([s EXCEPT !.while_ctx = NoWhile], pc + 1, "header")

rf_try(s, line, pc) ==
    LET lno == pc + 1
    IN  IF s.try_ctx.open
        THEN Fail(s, SyntaxErr(_fmt(s, lno, "Nested TRY not supported")), pc)
        ELSE IF s.if_ctx.open
        THEN Fail(s, SyntaxErr(_fmt(s, lno,
                 "TRY cannot start inside an open IF; close IF first")), pc)
        ELSE IF s.while_ctx.open
        THEN Fail(s, SyntaxErr(_fmt(s, lno,
                 "TRY cannot start inside an open WHILE; close WHILE first")), pc)
        ELSE Went([s EXCEPT !.try_ctx = [NoTry EXCEPT !.open = TRUE]], pc + 1, "header")

\* Faulty variant: the number of arguments of catch is not checked.
rf_catch_any_args(s, line, pc) ==
    LET lno  == pc + 1
        args == args_of(line)
    IN  IF ~s.try_ctx.open
        THEN Fail(s, SyntaxErr(_fmt(s, lno, "'catch' without matching 'try'")), pc)
        ELSE IF s.try_ctx.in_catch
        THEN Fail(s, SyntaxErr(_fmt(s, lno, "multiple 'catch' not allowed")), pc)
        ELSE Went(_enter_catch_if_needed(
                      [s EXCEPT !.try_ctx.in_catch = TRUE,
                                !.try_ctx.err_name =
                                    IF args # <<>> THEN args[1] ELSE None]),
                  pc + 1, "header")

rf_catch(s, line, pc) ==
    LET lno  == pc + 1
        args == args_of(line)
    IN  IF ~s.try_ctx.open
        THEN Fail(s, SyntaxErr(_fmt(s, lno, "'catch' without matching 'try'")), pc)
        ELSE IF s.try_ctx.in_catch
        THEN Fail(s, SyntaxErr(_fmt(s, lno, "multiple 'catch' not allowed")), pc)
        ELSE IF Len(args) > 1
        THEN Fail(s, SyntaxErr(_fmt(s, lno, "catch takes zero or one var name")), pc)
        ELSE Went(_enter_catch_if_needed(
                      [s EXCEPT !.try_ctx.in_catch = TRUE,
                                !.try_ctx.err_name =
                                    IF args # <<>> THEN args[1] ELSE None]),
                  pc + 1, "header")

rf_endtry(s, line, pc) ==
    IF ~s.try_ctx.open
    THEN Fail(s, SyntaxErr(_fmt(s, pc + 1, "'endtry' without matching 'try'")), pc)
    ELSE Went([s EXCEPT !.try_ctx = NoTry], pc + 1, "header")

rf_if(s, line, pc) ==
    LET lno == pc + 1
        c   == _eval_condition_tokens(s, args_of(line), lno)
    IN  IF s.if_ctx.open
        THEN Fail(s, SyntaxErr(_fmt(s, lno,
                 "Nested IF not supported (previous IF missing 'endif'?)")), pc)
        ELSE IF s.try_ctx.open
        THEN Fail(s, SyntaxErr(_fmt(s, lno,
                 "IF cannot start inside an open TRY; close TRY first")), pc)
        ELSE IF c.exc # NoExc THEN Fail(s, c.exc, pc)
        ELSE Went([s EXCEPT !.if_ctx =
                       [open |-> TRUE, cond_true |-> c.val, in_else |-> FALSE]],
                  pc + 1, "header")

rf_else(s, line, pc) ==
    IF ~s.if_ctx.open
    THEN Fail(s, SyntaxErr(_fmt(s, pc + 1, "'else' without matching 'if'")), pc)
    ELSE IF s.if_ctx.in_else
    THEN Fail(s, SyntaxErr(_fmt(s, pc + 1, "multiple 'else' not allowed")), pc)
    ELSE Went([s EXCEPT !.if_ctx.in_else = TRUE], pc + 1, "header")

\* Faulty variant: endif closes the IF without moving on.
rf_endif_staying(s, line, pc) ==
    IF ~s.if_ctx.open
    THEN Fail(s, SyntaxErr(_fmt(s, pc + 1, "'endif' without matching 'if'")), pc)
    ELSE Went([s EXCEPT !.if_ctx = NoIf], pc, "header")

rf_endif(s, line, pc) ==
    IF ~s.if_ctx.open
    THEN Fail(s, SyntaxErr(_fmt(s, pc + 1, "'endif' without matching 'if'")), pc)
    ELSE Went([s EXCEPT !.if_ctx = NoIf], pc + 1, "header")

\* An indent-0 line that is no control header: lines 586-603.
rf_top(s, line, pc, raw) ==
    IF s.if_ctx.open
    THEN Fail(s, SyntaxErr(_fmt(s, pc + 1,
             "Inside IF: expected an indented body line (TAB/4 spaces), 'else', or 'endif'")), pc)
    ELSE IF s.try_ctx.open
    THEN Fail(s, SyntaxErr(_fmt(s, pc + 1,
             "Inside TRY: expected an indented body line (TAB/4 spaces), 'catch', or 'endtry'")), pc)
    ELSE PlainStmt(s, line, pc + 1, raw, pc)

\* Faulty variant: control keywords at body indent are not rejected.
rf_body_without_keyword_check(s, line, pc, raw) ==
    LET lno == pc + 1
    IN  IF s.if_ctx.open THEN
            IF ~_should_execute_if_body_line(s) THEN Went(s, pc + 1, "skip")
            ELSE PlainStmt(s, line, lno, raw, pc)
        ELSE IF s.while_ctx.open THEN PlainStmt(s, line, lno, raw, pc)
        ELSE IF s.try_ctx.open THEN
            IF _should_execute_try_body_line(s) THEN TryStmt(s, line, lno, raw, pc)
            ELSE IF _should_execute_catch_body_line(s)
            THEN PlainStmt(_enter_catch_if_needed(s), line, lno, raw, pc)
            ELSE Went(s, pc + 1, "skip")
        ELSE Fail(s, SyntaxErr(_fmt(s, lno,
                 "You are missing the required 'while/if/try' before this indented line")), pc)

\* An indented line: lines 606-671.
rf_body(s, line, pc, raw) ==
    LET lno == pc + 1
    IN  IF head_l(line) \in header_keywords
        THEN Fail(s, SyntaxErr(_fmt(s, lno,
                 "'" \o head_l(line) \o "' must be at top level (no indent)")), pc)
        ELSE IF s.if_ctx.open THEN
            IF ~_should_execute_if_body_line(s) THEN Went(s, pc + 1, "skip")
            ELSE PlainStmt(s, line, lno, raw, pc)
        ELSE IF s.while_ctx.open THEN PlainStmt(s, line, lno, raw, pc)
        ELSE IF s.try_ctx.open THEN
            IF _should_execute_try_body_line(s) THEN TryStmt(s, line, lno, raw, pc)
            ELSE IF _should_execute_catch_body_line(s)
            THEN PlainStmt(_enter_catch_if_needed(s), line, lno, raw, pc)
            ELSE Went(s, pc + 1, "skip")
        ELSE Fail(s, SyntaxErr(_fmt(s, lno,
                 "You are missing the required 'while/if/try' before this indented line")), pc)

\* The branch of the loop body a line takes.
Branch(line) ==
    IF IsBlankOrComment(line) THEN "blank"
    ELSE IF ShlexFails(line) THEN "lexerr"
    ELSE IF _detect_indent(line) = 0 THEN
        IF head_l(line) \in header_keywords THEN head_l(line) ELSE "top"
    ELSE "body"

\* End of file: the dangling-block checks of lines 673-679.  n is len(lines).
\* Faulty variant: the dangling WHILE is not looked for.
rf_eof_ignoring_while(s, n) ==
    IF s.if_ctx.open
    THEN Fail(s, SyntaxErr(_fmt(s, n, "file ended but 'endif' is missing")), n)
    ELSE IF s.try_ctx.open
    THEN Fail(s, SyntaxErr(_fmt(s, n, "file ended but 'endtry' is missing")), n)
    ELSE Went(s, n, "return")

rf_eof(s, n) ==
    IF s.if_ctx.open
    THEN Fail(s, SyntaxErr(_fmt(s, n, "file ended but 'endif' is missing")), n)
    ELSE IF s.while_ctx.open
    THEN Fail(s, SyntaxErr(_fmt(s, n, "file ended but 'endwhile' is missing")), n)
    ELSE IF s.try_ctx.open
    THEN Fail(s, SyntaxErr(_fmt(s, n, "file ended but 'endtry' is missing")), n)
    ELSE Went(s, n, "return")

----------------------------------------------------------------------------
(* execute_line: the whole of one REPL line.  The pc field of the outcome  *)
(* is not used.                                                            *)

\* Faulty variant: a while header typed at the prompt opens a loop.
repl_loop_line_opening(s, line, lno) ==
    IF head_l(line) = "while"
    THEN Went([s EXCEPT !.while_ctx = [NoWhile EXCEPT !.open = TRUE]], 0, "header")
    ELSE Fail(s, SyntaxErr(_fmt(s, lno,
             "while/endwhile are only supported in .ba files, not in REPL")), 0)

\* Lines 326-330: the prompt has no loops.
repl_loop_line(s, line, lno) ==
    Fail(s, SyntaxErr(_fmt(s, lno,
             "while/endwhile are only supported in .ba files, not in REPL")), 0)

execute_line(s, line, lno, raw) ==
    IF IsBlankOrComment(line) THEN Went(s, 0, "noop")
    ELSE IF ShlexFails(line)
    THEN Fail(s, SyntaxErr(_fmt(s, lno, "parse error: No closing quotation")), 0)
    ELSE IF head_l(line) \in {"while", "endwhile"}
    THEN repl_loop_line(s, line, lno)
    ELSE IF _detect_indent(line) = 0 THEN
        CASE head_l(line) = "try" ->
                IF s.try_ctx.open
                THEN Fail(s, SyntaxErr(_fmt(s, lno, "Nested TRY not supported")), 0)
                ELSE IF s.if_ctx.open
                THEN Fail(s, SyntaxErr(_fmt(s, lno,
                         "TRY cannot start inside an open IF; close IF first")), 0)
                ELSE Went([s EXCEPT !.try_ctx = [NoTry EXCEPT !.open = TRUE]], 0, "header")
          [] head_l(line) = "catch" ->
                IF ~s.try_ctx.open
                THEN Fail(s, SyntaxErr(_fmt(s, lno, "'catch' without matching 'try'")), 0)
                ELSE IF s.try_ctx.in_catch
                THEN Fail(s, SyntaxErr(_fmt(s, lno, "multiple 'catch' not allowed")), 0)
                ELSE IF Len(args_of(line)) > 1
                THEN Fail(s, SyntaxErr(_fmt(s, lno, "catch takes zero or one var name")), 0)
                ELSE Went(_enter_catch_if_needed(
                              [s EXCEPT !.try_ctx.in_catch = TRUE,
                                        !.try_ctx.err_name =
                                            IF args_of(line) # <<>>
                                            THEN args_of(line)[1] ELSE None]),
                          0, "header")
          [] head_l(line) = "endtry" ->
                IF ~s.try_ctx.open
                THEN Fail(s, SyntaxErr(_fmt(s, lno, "'endtry' without matching 'try'")), 0)
                ELSE Went([s EXCEPT !.try_ctx = NoTry], 0, "header")
          [] head_l(line) = "if" ->
                LET c == _eval_condition_tokens(s, args_of(line), lno)
                IN  IF s.if_ctx.open
                    THEN Fail(s, SyntaxErr(_fmt(s, lno,
                             "Nested IF not supported (previous IF missing 'endif'?)")), 0)
                    ELSE IF s.try_ctx.open
                    THEN Fail(s, SyntaxErr(_fmt(s, lno,
                             "IF cannot start inside an open TRY; close TRY first")), 0)
                    ELSE IF c.exc # NoExc THEN Fail(s, c.exc, 0)
                    ELSE Went([s EXCEPT !.if_ctx =
                                   [open |-> TRUE, cond_true |-> c.val,
                                    in_else |-> FALSE]], 0, "header")
          [] head_l(line) = "else" ->
                IF ~s.if_ctx.open
                THEN Fail(s, SyntaxErr(_fmt(s, lno, "'else' without matching 'if'")), 0)
                ELSE IF s.if_ctx.in_else
                THEN Fail(s, SyntaxErr(_fmt(s, lno, "multiple 'else' not allowed")), 0)
                ELSE Went([s EXCEPT !.if_ctx.in_else = TRUE], 0, "header")
          [] head_l(line) = "endif" ->
                IF ~s.if_ctx.open
                THEN Fail(s, SyntaxErr(_fmt(s, lno, "'endif' without matching 'if'")), 0)
                ELSE Went([s EXCEPT !.if_ctx = NoIf], 0, "header")
          [] OTHER ->
                IF s.if_ctx.open
                THEN Fail(s, SyntaxErr(_fmt(s, lno,
                         "Inside IF: expected an indented line (TAB/4 spaces), 'else', or 'endif'")), 0)
                ELSE IF s.try_ctx.open
                THEN Fail(s, SyntaxErr(_fmt(s, lno,
                         "Inside TRY: expected an indented line (TAB/4 spaces), 'catch', or 'endtry'")), 0)
                ELSE PlainStmt(s, line, lno, raw, 0)
    ELSE
        IF head_l(line) \in header_keywords
        THEN Fail(s, SyntaxErr(_fmt(s, lno,
                 "'" \o head_l(line) \o "' must be at top level (no indent)")), 0)
        ELSE IF s.if_ctx.open THEN
            IF ~_should_execute_if_body_line(s) THEN Went(s, 0, "skip")
            ELSE PlainStmt(s, line, lno, raw, 0)
        ELSE IF s.try_ctx.open THEN
            IF _should_execute_try_body_line(s) THEN TryStmt(s, line, lno, raw, 0)
            ELSE IF _should_execute_catch_body_line(s)
            THEN PlainStmt(_enter_catch_if_needed(s), line, lno, raw, 0)
            ELSE Went(s, 0, "skip")
        ELSE Fail(s, SyntaxErr(_fmt(s, lno,
                 "You are missing the required 'while/if/try' before this indented line")), 0)

----------------------------------------------------------------------------
(* Source lines.  A line is its indent (0, or 1 for any run of leading     *)
(* white space) and the words of its content.                              *)

L(i, w) == [indent |-> i, words |-> w]
NoLine  == L(0, <<>>)

HeaderLines ==
    { L(0, <<"if", "1", "=", "1">>), L(0, <<"if", "1", "=", "2">>),
      L(0, <<"else">>), L(0, <<"endif">>),
      L(0, <<"while", "not", "x">>), L(0, <<"endwhile">>),
      L(0, <<"try">>), L(0, <<"catch", "e">>), L(0, <<"endtry">>),
      L(0, <<"catch">>), L(0, <<"catch", "e", "f">>),
      L(1, <<"endwhile">>) }

StatementLines ==
    { L(0, <<"int", "x", "0">>), L(1, <<"int", "x", "1">>),
      L(1, <<"int", "x", "abc">>),
      L(0, <<"PrintText", "hi">>), L(1, <<"bogus">>),
      L(1, <<"openfile", "missing.ba">>), L(1, <<"openfile", "inc.ba">>) }

OtherLines ==
    { L(1, <<>>), L(0, <<"#", "note">>), L(1, <<"printtext", "\"oops">>) }

Alphabet == HeaderLines \cup StatementLines \cup OtherLines

\* inc.ba does not include itself: the recursion would not end.
IncAlphabet ==
    {l \in Alphabet : \A i \in 1..Len(l.words) : l.words[i] # "inc.ba"}

\* The lines a false while may scan over: they are read, never executed.
ScanAlphabet ==
    { L(1, <<"bogus">>), L(1, <<"endwhile">>), L(0, <<"int", "x", "0">>),
      L(1, <<>>), L(1, <<"printtext", "\"oops">>), L(0, <<"endwhile">>) }

----------------------------------------------------------------------------
(* The state machine. *)

NoPending     == [kind |-> "", msg |-> "", at |-> ""]
Pending(e, a) == [kind |-> e.kind, msg |-> e.msg, at |-> a]

NoEv == [mode |-> "", kind |-> "", ran |-> FALSE, err |-> "", line |-> NoLine,
         lno |-> 0]

Init ==
    /\ vars = NewInterp.vars
    /\ if_ctx = NewInterp.if_ctx
    /\ while_ctx = NewInterp.while_ctx
    /\ try_ctx = NewInterp.try_ctx
    /\ current_file = NewInterp.current_file
    /\ files = [f \in ExistingFiles |-> [lines |-> <<>>, eof |-> FALSE]]
    /\ stack = <<>>
    /\ exc = NoPending
    /\ phase = "init"
    /\ line_no = 0
    /\ ev = NoEv
    /\ passes = 0
    /\ dispatched = [f \in ExistingFiles |-> <<>>]

SetSelf(s) ==
    /\ vars' = s.vars
    /\ if_ctx' = s.if_ctx
    /\ while_ctx' = s.while_ctx
    /\ try_ctx' = s.try_ctx
    /\ current_file' = s.current_file

\* __main__ with one argument: db.run_file(prog) on a new interpreter.
MainRunFile ==
    /\ phase = "init"
    /\ LET r == run_file_enter(Self, "main.ba")
       IN  /\ SetSelf(r.s)
           /\ stack' = <<[file |-> r.call, pc |-> 0, site |-> "plain"]>>
    /\ phase' = "file"
    /\ UNCHANGED <<files, exc, line_no, ev, passes, dispatched>>

\* __main__ without arguments: repl().
MainRepl ==
    /\ phase = "init"
    /\ phase' = "repl"
    /\ UNCHANGED <<vars, if_ctx, while_ctx, try_ctx, current_file, files, stack,
                   exc, line_no, ev, passes, dispatched>>

Top      == stack[Len(stack)]
TopLines == files[Top.file].lines
TopEof   == files[Top.file].eof
Front(q) == SubSeq(q, 1, Len(q) - 1)

Running == stack # <<>> /\ exc.kind = "" /\ phase \in {"file", "repl"}

\* The while header at pc is one whose condition is false: it scans forward.
WhileScans(s, line, pc) ==
    /\ Branch(line) = "while"
    /\ ~s.while_ctx.open /\ ~s.if_ctx.open /\ ~s.try_ctx.open
    /\ LET c == _eval_condition_tokens(s, args_of(line), pc + 1)
       IN  c.exc = NoExc /\ ~c.val

\* The runner needs a line of the file that has not been drawn yet.
NeedMore ==
    /\ Running
    /\ ~TopEof
    /\ \/ Top.pc >= Len(TopLines)
       \/ /\ Top.pc < Len(TopLines)
          /\ WhileScans(Self, TopLines[Top.pc + 1], Top.pc)
          /\ ScanStop(TopLines, Top.pc + 2) = 0

\* The lines of input consumed so far: file lines read and prompt lines.
TotalLines == Len(files["main.ba"].lines) + Len(files["inc.ba"].lines) + line_no

ReadLine ==
    /\ NeedMore
    /\ TotalLines < MaxLines
    /\ \E l \in (IF Top.pc < Len(TopLines) THEN ScanAlphabet
                 ELSE IF Top.file = "inc.ba" THEN IncAlphabet ELSE Alphabet) :
          files' = [files EXCEPT ![Top.file].lines = Append(@, l)]
    /\ UNCHANGED <<vars, if_ctx, while_ctx, try_ctx, current_file, stack, exc,
                   phase, line_no, ev, passes, dispatched>>

ReadEOF ==
    /\ NeedMore
    /\ files' = [files EXCEPT ![Top.file].eof = TRUE]
    /\ UNCHANGED <<vars, if_ctx, while_ctx, try_ctx, current_file, stack, exc,
                   phase, line_no, ev, passes, dispatched>>

LineReady == Running /\ ~NeedMore /\ Top.pc < Len(TopLines)
CurLine   == TopLines[Top.pc + 1]

\* An exception leaves the innermost run_file: its frame is gone, and the
\* exception is at the call site of that run_file (exc.at).
RaiseOut(e) ==
    /\ stack' = Front(stack)
    /\ exc' = Pending(e, Top.site)
    /\ phase' = IF Len(stack) = 1 /\ phase = "file" THEN "failed" ELSE phase

\* Times line number k of file f has been dispatched in the present run.
Hits(h, f, k) == IF k \in DOMAIN h[f] THEN h[f][k] ELSE 0
Hit(h, f, k) ==
    [h EXCEPT ![f] = [i \in DOMAIN h[f] \cup {k} |->
                         IF i = k THEN Hits(h, f, k) + 1 ELSE h[f][i]]]

\* The effect of outcome r of the line at pc of the innermost run_file.
ApplyFile(r) ==
    /\ SetSelf(r.s)
    /\ IF r.exc # NoExc THEN RaiseOut(r.exc)
       ELSE /\ exc' = exc
            /\ phase' = phase
            /\ stack' = IF r.call # ""
                        THEN Append(stack, [file |-> r.call, pc |-> 0, site |-> r.site])
                        ELSE [stack EXCEPT ![Len(stack)].pc = r.pc]
    /\ ev' = [mode |-> "file", kind |-> r.kind, ran |-> r.ran, err |-> r.exc.kind,
              line |-> CurLine, lno |-> Top.pc + 1]
    /\ passes' = IF r.call # "" THEN 0
                 ELSE IF r.exc # NoExc \/ ~r.s.while_ctx.open THEN passes
                 ELSE IF Branch(CurLine) = "while" /\ ~while_ctx.open THEN 1
                 ELSE IF Branch(CurLine) = "endwhile" THEN passes + 1
                 ELSE passes
    /\ dispatched' =
           LET h == IF r.ran THEN Hit(dispatched, Top.file, Top.pc + 1)
                    ELSE dispatched
           IN   IF r.call # "" THEN [h EXCEPT ![r.call] = <<>>] ELSE h
    /\ UNCHANGED <<files, line_no>>

SkipBlank ==
    /\ LineReady /\ Branch(CurLine) = "blank"
    /\ ApplyFile(Went(Self, Top.pc + 1, "noop"))

\* shlex.split raises ValueError in parse_tokens; run_file has no handler.
LexError ==
    /\ LineReady /\ Branch(CurLine) = "lexerr"
    /\ ApplyFile(Fail(Self, InternalErr("No closing quotation"), Top.pc))

While ==
    /\ LineReady /\ Branch(CurLine) = "while"
    /\ ApplyFile(rf_while(Self, CurLine, Top.pc, TopLines))

EndWhile ==
    /\ LineReady /\ Branch(CurLine) = "endwhile"
    /\ LET r == rf_endwhile(Self, CurLine, Top.pc)
       IN  (r.exc = NoExc /\ r.s.while_ctx.open) => passes < MaxPasses
    /\ ApplyFile(rf_endwhile(Self, CurLine, Top.pc))

Try ==
    /\ LineReady /\ Branch(CurLine) = "try"
    /\ ApplyFile(rf_try(Self, CurLine, Top.pc))

Catch ==
    /\ LineReady /\ Branch(CurLine) = "catch"
    /\ ApplyFile(rf_catch(Self, CurLine, Top.pc))

EndTry ==
    /\ LineReady /\ Branch(CurLine) = "endtry"
    /\ ApplyFile(rf_endtry(Self, CurLine, Top.pc))

If ==
    /\ LineReady /\ Branch(CurLine) = "if"
    /\ ApplyFile(rf_if(Self, CurLine, Top.pc))

Else ==
    /\ LineReady /\ Branch(CurLine) = "else"
    /\ ApplyFile(rf_else(Self, CurLine, Top.pc))

EndIf ==
    /\ LineReady /\ Branch(CurLine) = "endif"
    /\ ApplyFile(rf_endif(Self, CurLine, Top.pc))

TopLevel ==
    /\ LineReady /\ Branch(CurLine) = "top"
    /\ \E raw \in RawInputs : ApplyFile(rf_top(Self, CurLine, Top.pc, raw))

BodyLine ==
    /\ LineReady /\ Branch(CurLine) = "body"
    /\ \E raw \in RawInputs : ApplyFile(rf_body(Self, CurLine, Top.pc, raw))

\* The caller's line of the call that is returning or raising.
CallerLine == IF Len(stack) >= 2
              THEN files[stack[Len(stack) - 1].file].lines[stack[Len(stack) - 1].pc + 1]
              ELSE NoLine
CallerLno  == IF Len(stack) >= 2 THEN stack[Len(stack) - 1].pc + 1 ELSE line_no

\* while pc < n ends: the dangling-block checks, then run_file returns and
\* the caller's openfile line is done.
EndOfFile ==
    /\ Running /\ ~NeedMore /\ Top.pc >= Len(TopLines)
    /\ LET r == rf_eof(Self, Len(TopLines))
       IN  /\ SetSelf(r.s)
           /\ IF r.exc # NoExc
              THEN /\ RaiseOut(r.exc)
                   /\ ev' = [mode |-> "eof", kind |-> "raise", ran |-> FALSE,
                             err |-> r.exc.kind, line |-> NoLine, lno |-> Len(TopLines)]
              ELSE /\ exc' = exc
                   /\ stack' = IF Len(stack) >= 2
                               THEN [Front(stack) EXCEPT ![Len(stack) - 1].pc = @ + 1]
                               ELSE <<>>
                   /\ phase' = IF Len(stack) = 1 /\ phase = "file" THEN "done" ELSE phase
                   /\ ev' = [mode |-> "eof", kind |-> "return", ran |-> FALSE,
                             err |-> "", line |-> CallerLine, lno |-> CallerLno]
    /\ UNCHANGED <<files, line_no, passes, dispatched>>

\* An exception arrives at the call site of the run_file it left: the try
\* statement of a try-section body line handles it, any other call site
\* lets it pass to its own caller (repl() prints it).
Handle ==
    /\ exc.kind # ""
    /\ stack # <<>> \/ phase = "repl"
    /\ LET e  == [kind |-> exc.kind, msg |-> exc.msg]
           pc == IF stack # <<>> THEN Top.pc ELSE 0
           h  == IF exc.at = "try" THEN TryHandler(Self, e, pc) ELSE Fail(Self, e, pc)
           ln == IF stack # <<>> THEN TopLines[Top.pc + 1] ELSE NoLine
           no == IF stack # <<>> THEN Top.pc + 1 ELSE line_no
       IN  /\ SetSelf(h.s)
           /\ IF h.exc = NoExc
              THEN /\ exc' = NoPending
                   /\ stack' = IF stack # <<>>
                               THEN [stack EXCEPT ![Len(stack)].pc = h.pc]
                               ELSE stack
                   /\ phase' = phase
              ELSE IF stack # <<>> THEN RaiseOut(h.exc)
              ELSE /\ exc' = NoPending
                   /\ stack' = stack
                   /\ phase' = phase
           /\ ev' = [mode |-> "handler", kind |-> h.kind, ran |-> FALSE,
                     err |-> h.exc.kind, line |-> ln, lno |-> no]
    /\ UNCHANGED <<files, line_no, passes, dispatched>>

\* repl(): one turn of the prompt loop; an error of execute_line is printed.
ExecuteLine ==
    /\ phase = "repl" /\ stack = <<>> /\ exc.kind = ""
    /\ line_no < MaxReplLines /\ TotalLines < MaxLines
    /\ \E line \in Alphabet, raw \in RawInputs :
          LET r == execute_line(Self, line, line_no + 1, raw)
          IN  /\ SetSelf(r.s)
              /\ stack' = IF r.exc = NoExc /\ r.call # ""
                          THEN <<[file |-> r.call, pc |-> 0, site |-> r.site]>>
                          ELSE stack
              /\ ev' = [mode |-> "repl", kind |-> r.kind, ran |-> r.ran,
                        err |-> r.exc.kind, line |-> line, lno |-> line_no + 1]
              /\ passes' = IF r.call # "" THEN 0 ELSE passes
              /\ dispatched' = IF r.call # ""
                                THEN [dispatched EXCEPT ![r.call] = <<>>]
                                ELSE dispatched
    /\ line_no' = line_no + 1
    /\ UNCHANGED <<files, exc, phase>>

\* Programs of loops: a counting loop whose body reads the next value of
\* x from the console, loops on a flag, and IF blocks.
LoopAlphabet ==
    { L(0, <<"int", "x", "0">>),
      L(0, <<"while", "x", "<", "3">>), L(0, <<"while", "not", "x">>),
      L(1, <<"input", "int", "x">>), L(1, <<"int", "x", "1">>),
      L(0, <<"if", "1", "=", "2">>), L(0, <<"else">>), L(0, <<"endif">>),
      L(0, <<"endwhile">>) }

ReadLoopLine ==
    /\ NeedMore
    /\ Len(files["main.ba"].lines) < MaxLoopLines
    /\ \E l \in (IF Top.pc < Len(TopLines)
                 THEN {L(1, <<"int", "x", "1">>), L(0, <<"endwhile">>)}
                 ELSE LoopAlphabet) :
          files' = [files EXCEPT ![Top.file].lines = Append(@, l)]
    /\ UNCHANGED <<vars, if_ctx, while_ctx, try_ctx, current_file, stack, exc,
                   phase, line_no, ev, passes, dispatched>>

\* One iteration of the loop of run_file, or the end of a run_file.
RunFileStep ==
    \/ ReadLine \/ ReadEOF
    \/ SkipBlank \/ LexError
    \/ While \/ EndWhile \/ Try \/ Catch \/ EndTry \/ If \/ Else \/ EndIf
    \/ TopLevel \/ BodyLine
    \/ EndOfFile \/ Handle

\* File mode: python DeadBasic.py main.ba
Next == MainRunFile \/ RunFileStep

Spec == Init /\ [][Next]_allvars

\* Interactive mode: python DeadBasic.py
\* File mode on programs of loops.
NextLoop ==
    \/ MainRunFile \/ ReadLoopLine \/ ReadEOF
    \/ While \/ EndWhile \/ If \/ Else \/ EndIf
    \/ TopLevel \/ BodyLine \/ EndOfFile
SpecLoop == Init /\ [][NextLoop]_allvars

\* File mode on programs of one TRY block whose catch names its error
\* variable e: e may exist as an int before the block, and the catch body
\* may assign e and print it.
MaxCatchLines == 5

CatchAlphabet ==
    { L(0, <<"int", "e", "0">>),
      L(0, <<"try">>), L(1, <<"bogus">>),
      L(0, <<"catch", "e">>),
      L(1, <<"str", "e", "hi">>), L(1, <<"PrintText", "e">>),
      L(0, <<"endtry">>) }

ReadCatchLine ==
    /\ NeedMore
    /\ Len(files["main.ba"].lines) < MaxCatchLines
    /\ \E l \in CatchAlphabet :
          files' = [files EXCEPT ![Top.file].lines = Append(@, l)]
    /\ UNCHANGED <<vars, if_ctx, while_ctx, try_ctx, current_file, stack, exc,
                   phase, line_no, ev, passes, dispatched>>

NextCatch ==
    \/ MainRunFile \/ ReadCatchLine \/ ReadEOF
    \/ Try \/ Catch \/ EndTry
    \/ TopLevel \/ BodyLine \/ EndOfFile
SpecCatch == Init /\ [][NextCatch]_allvars

\* Sessions of declarations typed at the prompt: every type keyword, two
\* names, two integer texts and a text that is no number.
MaxDeclares == 3

DeclareAlphabet ==
    { L(0, <<t, n, v>>) : t \in type_keywords, n \in {"x", "y"},
                          v \in {"0", "1", "abc"} }

DeclareLine ==
    /\ phase = "repl" /\ stack = <<>> /\ exc.kind = ""
    /\ line_no < MaxDeclares
    /\ \E line \in DeclareAlphabet :
          LET r == execute_line(Self, line, line_no + 1, "1")
          IN  /\ SetSelf(r.s)
              /\ ev' = [mode |-> "repl", kind |-> r.kind, ran |-> r.ran,
                        err |-> r.exc.kind, line |-> line, lno |-> line_no + 1]
    /\ line_no' = line_no + 1
    /\ UNCHANGED <<files, stack, exc, phase, passes, dispatched>>

NextDeclare == MainRepl \/ DeclareLine

SpecDeclare == Init /\ [][NextDeclare]_allvars

\* Sessions of conditions typed at the prompt: the operands are a number,
\* a word, an int variable and a str variable; the operators are the six
\* of the language and one that is none of them; the token lists have zero
\* to four tokens.
MaxCondLines == 3

CondOperands  == {"1", "abc", "x", "y"}
CondOperators == {"=", "!=", "<", ">", "<=", ">=", "~"}

CondAlphabet ==
    { L(0, <<"if", a, op, b>>) : a \in CondOperands, op \in CondOperators,
                                 b \in CondOperands }
    \cup { L(0, <<"if">>), L(0, <<"if", "1">>), L(0, <<"if", "not">>),
           L(0, <<"if", "not", "1">>), L(0, <<"if", "not", "abc">>),
           L(0, <<"if", "not", "=", "1">>), L(0, <<"if", "1", "1">>),
           L(0, <<"if", "1", "=", "1", "2">>),
           L(0, <<"endif">>),
           L(0, <<"int", "x", "1">>), L(0, <<"str", "y", "abc">>) }

CondLine ==
    /\ phase = "repl" /\ stack = <<>> /\ exc.kind = ""
    /\ line_no < MaxCondLines
    /\ \E line \in CondAlphabet :
          LET r == execute_line(Self, line, line_no + 1, "1")
          IN  /\ SetSelf(r.s)
              /\ ev' = [mode |-> "repl", kind |-> r.kind, ran |-> r.ran,
                        err |-> r.exc.kind, line |-> line, lno |-> line_no + 1]
    /\ line_no' = line_no + 1
    /\ UNCHANGED <<files, stack, exc, phase, passes, dispatched>>

NextCond == MainRepl \/ CondLine

SpecCond == Init /\ [][NextCond]_allvars

NextRepl == MainRepl \/ ExecuteLine \/ RunFileStep

SpecRepl == Init /\ [][NextRepl]_allvars

----------------------------------------------------------------------------
(* Vocabulary of the properties. *)

\* An indented line that reaches the body code of its runner: it lexes to
\* words and its head is no control keyword (lines 606-608 reject those).
IsBodyLine(line) == Branch(line) = "body" /\ head_l(line) \notin header_keywords

\* The try section of an open TRY: before catch, no error recorded.
InTrySection == try_ctx.open /\ ~try_ctx.in_catch /\ ~try_ctx.has_error

\* The innermost run_file goes on to its next physical line.
PcAdvances == stack' = [stack EXCEPT ![Len(stack)].pc = @ + 1]

ContextsUnchanged == UNCHANGED <<if_ctx, while_ctx, try_ctx>>

\* The line has no effect: same store, same contexts, no error, next line.
SilentlySkipped ==
    /\ ev'.kind = "skip" /\ ~ev'.ran /\ ev'.err = ""
    /\ vars' = vars /\ ContextsUnchanged
    /\ exc' = NoPending /\ phase' = phase
    /\ PcAdvances

\* The error a statement line raises in the present state ("" for none).
RaisedKind(line) == Dispatch(Self, line, Top.pc + 1, "1").exc.kind
RaisedText(line) ==
    LET e == Dispatch(Self, line, Top.pc + 1, "1").exc
    IN  IF e.kind = "Internal" THEN "Internal error: " \o e.msg ELSE e.msg

----------------------------------------------------------------------------
(* Properties of the runner (run_file), checked under Spec. *)

\* C1: at most one of if_ctx, while_ctx and try_ctx is open at any time;
\* an if, while or try header met while any context is open fails with a
\* Syntax error and opens no new context, so a header that took effect
\* leaves exactly its own context open.
C1_OneContextAtATime ==
    /\ ~(if_ctx.open /\ while_ctx.open)
    /\ ~(if_ctx.open /\ try_ctx.open)
    /\ ~(while_ctx.open /\ try_ctx.open)
    /\ (ev.mode = "file" /\ ev.kind = "header"
            /\ Lower(ev.line.words[1]) \in {"if", "while", "try"})
       => Cardinality({c \in {if_ctx, while_ctx, try_ctx} : c.open}) <= 1

\* C2: while an IfContext is open, an indented body line is executed
\* exactly when (in_else is false and cond_true) or (in_else is true and
\* not cond_true); otherwise it is skipped: no effect, no error, the runner
\* goes on to the next line.
C2_IfBodyVisibility ==
    [][(LineReady /\ if_ctx.open /\ IsBodyLine(CurLine))
        => IF \/ ~if_ctx.in_else /\ if_ctx.cond_true
              \/ if_ctx.in_else /\ ~if_ctx.cond_true
           THEN ev'.ran /\ ev'.kind \in {"exec", "call", "raise"}
                /\ ev'.line = CurLine
           ELSE SilentlySkipped]_allvars

\* The line after else of an if whose condition is true is skipped, the
\* line before else having run.
C2_Witness ==
    /\ if_ctx.open /\ if_ctx.in_else /\ if_ctx.cond_true
    /\ ev.kind = "skip" /\ ev.line = L(1, <<"bogus">>)
    /\ "x" \in DOMAIN vars

\* C3: while a TryContext is open, an indented body line is executed iff
\* (in_catch is false and has_error is false) or (in_catch is true and
\* has_error is true); any other body line is skipped without effect and
\* without error, whatever statement it holds.
C3_TryBodyVisibility ==
    [][(LineReady /\ try_ctx.open /\ IsBodyLine(CurLine))
        => IF \/ ~try_ctx.in_catch /\ ~try_ctx.has_error
              \/ try_ctx.in_catch /\ try_ctx.has_error
           THEN ev'.ran /\ ev'.kind \in {"exec", "call", "raise", "absorbed"}
                /\ ev'.line = CurLine
           ELSE SilentlySkipped]_allvars

\* A try-section line after the recorded error is skipped although it is
\* an unknown command.
C3_Witness ==
    /\ try_ctx.open /\ ~try_ctx.in_catch /\ try_ctx.has_error
    /\ ev.kind = "skip" /\ ev.line = L(1, <<"bogus">>) /\ ev.lno = 3

\* C4: an error raised by a body line of the try section (TryContext open,
\* in_catch false, has_error false) is absorbed: has_error becomes true,
\* err_msg holds the error text, nothing propagates, the TryContext stays
\* open and the runner goes on to the next line.
C4_TrySectionAbsorbs ==
    [][(LineReady /\ InTrySection /\ IsBodyLine(CurLine)
            /\ RaisedKind(CurLine) # "")
        => /\ try_ctx'.open /\ try_ctx'.has_error /\ ~try_ctx'.in_catch
           /\ try_ctx'.err_msg = RaisedText(CurLine)
           /\ exc' = NoPending /\ phase' = phase
           /\ PcAdvances]_allvars

\* C5: try / catch name / endtry whose try section raises a Runtime error:
\* the error is recorded and does not propagate, the later try-section
\* lines are not executed, has_error and err_msg stay as first recorded
\* while the TryContext is open, the catch header binds name to err_msg as
\* a str, every catch-section line is executed, and endtry closes the
\* context.
C5_TryCatchEndtry ==
    [][/\ (LineReady /\ InTrySection /\ IsBodyLine(CurLine)
              /\ RaisedKind(CurLine) = "Runtime")
          => /\ try_ctx'.open /\ try_ctx'.has_error
             /\ try_ctx'.err_msg = RaisedText(CurLine)
             /\ exc' = NoPending /\ PcAdvances
       /\ (LineReady /\ try_ctx.open /\ try_ctx.has_error /\ IsBodyLine(CurLine))
          => (ev'.ran <=> try_ctx.in_catch)
       /\ (LineReady /\ try_ctx.open /\ try_ctx.has_error /\ try_ctx'.open)
          => try_ctx'.has_error /\ try_ctx'.err_msg = try_ctx.err_msg
       /\ (LineReady /\ try_ctx.open /\ try_ctx.has_error /\ ~try_ctx.in_catch
              /\ Branch(CurLine) = "catch" /\ Len(args_of(CurLine)) = 1)
          => /\ try_ctx'.in_catch
             /\ args_of(CurLine)[1] \in DOMAIN vars'
             /\ vars'[args_of(CurLine)[1]] =
                    [type |-> "str", value |-> StrV(try_ctx.err_msg)]
       /\ (LineReady /\ try_ctx.open /\ Branch(CurLine) = "endtry")
          => ~try_ctx'.open /\ exc' = NoPending /\ PcAdvances
      ]_allvars

\* C6: an error raised by a line that is not a body line of the try
\* section of an open TRY propagates out of run_file and aborts the run:
\* it is never absorbed, the run_file that raised it is left at once, the
\* error is not recorded into the TryContext, a call site outside a try
\* section passes it on unchanged, and a failed run takes no further step.
C6_ErrorsOutsideTrySectionPropagate ==
    [][/\ phase # "failed"
       /\ (LineReady /\ ~(InTrySection /\ IsBodyLine(CurLine)))
          => /\ ev'.kind # "absorbed"
             /\ ev'.err # ""
                => /\ ev'.kind = "raise"
                   /\ stack' = Front(stack)
                   /\ exc'.kind = ev'.err /\ exc'.at = Top.site
                   /\ Len(stack) = 1 => phase' = "failed"
                   /\ try_ctx' \in {try_ctx, NoTry}
       /\ (exc.kind # "" /\ exc.at = "plain" /\ stack # <<>>)
          => /\ stack' = Front(stack)
             /\ exc'.kind = exc.kind /\ exc'.msg = exc.msg
             /\ Len(stack) = 1 => phase' = "failed"
             /\ try_ctx' = try_ctx
      ]_allvars

\* The run has failed on an unknown command in the catch section of an
\* open TRY, whose recorded error is still the one of the try section.
C6_Witness ==
    /\ phase = "failed" /\ stack = <<>> /\ exc.kind = "Syntax"
    /\ ev.kind = "raise" /\ ev.line = L(1, <<"bogus">>) /\ ev.lno = 4
    /\ try_ctx.open /\ try_ctx.in_catch /\ try_ctx.has_error

\* C7: while a WhileContext is open, every indented body line the runner
\* reaches is executed.
C7_WhileBodyAlwaysExecutes ==
    [][(LineReady /\ while_ctx.open /\ IsBodyLine(CurLine))
        => ev'.ran /\ ev'.kind \in {"exec", "call", "raise"}]_allvars

\* The header keywords a line of an open block may start with at indent 0.
OwnKeywords ==
    (IF if_ctx.open THEN {"if", "else", "endif"} ELSE {})
    \cup (IF while_ctx.open THEN {"while", "endwhile"} ELSE {})
    \cup (IF try_ctx.open THEN {"try", "catch", "endtry"} ELSE {})

NoContextOpen == ~if_ctx.open /\ ~while_ctx.open /\ ~try_ctx.open

\* C8: while a context of any kind is open, an indent-0 line that is not
\* blank, not a comment and not one of that block's own header keywords
\* fails with a Syntax error; top-level declarations and commands execute
\* only when no context is open.
C8_TopLevelOnlyOutsideBlocks ==
    [][/\ (LineReady /\ ~NoContextOpen /\ _detect_indent(CurLine) = 0
              /\ ~IsBlankOrComment(CurLine)
              /\ Lower(CurLine.words[1]) \notin OwnKeywords)
          => ev'.kind = "raise" /\ ev'.err = "Syntax" /\ ~ev'.ran
       /\ (LineReady /\ Branch(CurLine) = "top" /\ ev'.ran) => NoContextOpen
      ]_allvars

\* A while header that evaluates its condition: no context is open and
\* the condition has a value.
AtWhileHeader ==
    /\ LineReady /\ Branch(CurLine) = "while" /\ NoContextOpen
    /\ _eval_condition_tokens(Self, args_of(CurLine), Top.pc + 1).exc = NoExc

WhileHeaderTrue == _eval_condition_tokens(Self, args_of(CurLine), Top.pc + 1).val

\* The first line after the header (one-based index) that is an indent-0
\* endwhile, 0 when there is none.
FirstEndwhile ==
    LET hits == {k \in (Top.pc + 2)..Len(TopLines) :
                    /\ TopLines[k].indent = 0
                    /\ TopLines[k].words # <<>>
                    /\ TopLines[k].words[1] \notin CommentMarkers
                    /\ \A i \in 1..Len(TopLines[k].words) :
                          TopLines[k].words[i] \notin BadQuoted
                    /\ Lower(TopLines[k].words[1]) = "endwhile"}
    IN  IF hits = {} THEN 0 ELSE CHOOSE k \in hits : \A h \in hits : k <= h

\* No line the scan of a false while reads has malformed quoting.
ScanLexes ==
    \A k \in (Top.pc + 2)..(IF FirstEndwhile # 0 THEN FirstEndwhile
                            ELSE Len(TopLines)) :
        \/ TopLines[k].words = <<>>
        \/ TopLines[k].words[1] \in CommentMarkers
        \/ \A i \in 1..Len(TopLines[k].words) : TopLines[k].words[i] \notin BadQuoted

\* What the header does by the value of its condition.
WhileHeaderOpens ==
    /\ while_ctx' = [open |-> TRUE, start_pc |-> Top.pc,
                     cond_tokens |-> Tail(CurLine.words)]
    /\ vars' = vars /\ exc' = NoPending /\ PcAdvances

WhileHeaderJumps ==
    /\ ~while_ctx'.open /\ vars' = vars /\ UNCHANGED <<if_ctx, try_ctx>>
    /\ exc' = NoPending
    /\ stack' = [stack EXCEPT ![Len(stack)].pc = FirstEndwhile]

WhileHeaderMissing ==
    /\ ~while_ctx'.open
    /\ ev'.kind = "raise" /\ ev'.err = "Syntax" /\ exc'.kind = "Syntax"

C10_Endwhile ==
    [][(LineReady /\ Branch(CurLine) = "endwhile")
        => IF ~while_ctx.open
           THEN /\ ev'.kind = "raise" /\ ev'.err = "Syntax"
                /\ exc'.kind = "Syntax" /\ ~while_ctx'.open
           ELSE LET hdr == TopLines[while_ctx.start_pc + 1]
                    c   == _eval_condition_tokens(Self, Tail(hdr.words), Top.pc + 1)
                IN  /\ Lower(hdr.words[1]) = "while"
                    /\ while_ctx.cond_tokens = Tail(hdr.words)
                    /\ vars' = vars
                    /\ c.exc = NoExc
                       => /\ exc' = NoPending
                          /\ IF c.val
                             THEN /\ while_ctx' = while_ctx
                                  /\ stack' = [stack EXCEPT ![Len(stack)].pc =
                                                   while_ctx.start_pc + 1]
                             ELSE /\ while_ctx' = NoWhile
                                  /\ PcAdvances
      ]_allvars

\* The endwhile of a loop whose body has made the condition false has
\* closed the WhileContext and gone on.
C10_Witness ==
    /\ stack # <<>> /\ ev.kind = "header" /\ ev.line = L(0, <<"endwhile">>)
    /\ ev.lno = 4 /\ Top.pc = 4
    /\ ~while_ctx.open
    /\ "x" \in DOMAIN vars /\ vars["x"].value = NumV(1)

\* C11: a loop whose condition is true at the header and at exactly k-1
\* of the following endwhile evaluations has run every body line exactly
\* k times when the endwhile finds the condition false, and then goes on
\* after the endwhile with the WhileContext closed (k = 3 for int i 0 /
\* while i < 3 / body that raises i by one / endwhile).
C11_LoopRunsBodyEveryPass ==
    [][(LineReady /\ Branch(CurLine) = "endwhile" /\ while_ctx.open
            /\ _eval_condition_tokens(Self, while_ctx.cond_tokens, Top.pc + 1)
                   = CondOk(FALSE))
        => /\ \A i \in (while_ctx.start_pc + 2)..Top.pc :
                 IsBodyLine(TopLines[i])
                 => Hits(dispatched, Top.file, i) = passes
           /\ ~while_ctx'.open /\ PcAdvances /\ exc' = NoPending]_allvars

\* The runner is at the end of its file: while pc < n has ended.
AtEndOfFile == Running /\ ~NeedMore /\ Top.pc >= Len(TopLines)

\* The closers of the contexts that are open.
MissingClosers ==
    (IF if_ctx.open THEN {"endif"} ELSE {})
    \cup (IF while_ctx.open THEN {"endwhile"} ELSE {})
    \cup (IF try_ctx.open THEN {"endtry"} ELSE {})

\* C12: at the end of input with a context still open run_file fails with
\* a Syntax error that names the closer of an open context; it returns
\* normally exactly when if_ctx, while_ctx and try_ctx are all closed, and
\* leaves them closed.
C12_EndOfInputNeedsClosedBlocks ==
    [][AtEndOfFile
        => IF MissingClosers = {}
           THEN /\ ev'.kind = "return" /\ exc' = NoPending
                /\ ~if_ctx'.open /\ ~while_ctx'.open /\ ~try_ctx'.open
                /\ stack' # stack /\ Len(stack') = Len(stack) - 1
           ELSE /\ ev'.kind = "raise" /\ ev'.err = "Syntax" /\ exc'.kind = "Syntax"
                /\ \E c \in MissingClosers :
                      exc'.msg = "[" \o current_file \o ":line "
                                 \o ToString(Len(TopLines))
                                 \o "] file ended but '" \o c \o "' is missing"
                /\ stack' = Front(stack)
                /\ ContextsUnchanged]_allvars

\* The run has failed at the end of a file whose TRY, in its catch
\* section, was never closed.
C12_Witness ==
    /\ phase = "failed" /\ ev.mode = "eof" /\ ev.kind = "raise"
    /\ try_ctx.open /\ try_ctx.in_catch /\ ~if_ctx.open /\ ~while_ctx.open
    /\ exc.msg = "[main.ba:line 2] file ended but 'endtry' is missing"

\* The head word of the line is a control keyword.
HeadIsKeyword(line) ==
    Lower(line.words[1]) \in {"if", "else", "endif", "while", "endwhile",
                              "try", "catch", "endtry"}

\* C13: an indented line fails with a Syntax error when no context is
\* open, and an indented line whose head word is a control keyword fails
\* with a Syntax error in every context state, also inside a try section
\* and inside a section that is being skipped; the contexts and the store
\* are left as they were.
C13_IndentedLineErrors ==
    [][(LineReady /\ Branch(CurLine) = "body"
            /\ (NoContextOpen \/ HeadIsKeyword(CurLine)))
        => /\ ev'.kind = "raise" /\ ev'.err = "Syntax" /\ ~ev'.ran
           /\ exc'.kind = "Syntax" /\ stack' = Front(stack)
           /\ ContextsUnchanged /\ vars' = vars]_allvars

\* An indented endwhile has failed inside the try section of an open TRY,
\* unabsorbed.
C13_Witness ==
    /\ phase = "failed" /\ ev.kind = "raise" /\ ev.err = "Syntax"
    /\ ev.line = L(1, <<"endwhile">>)
    /\ try_ctx.open /\ ~try_ctx.in_catch /\ ~try_ctx.has_error

\* A header that is not legal here: a Syntax error, nothing else changes.
HeaderRejected ==
    /\ ev'.kind = "raise" /\ ev'.err = "Syntax" /\ exc'.kind = "Syntax"
    /\ stack' = Front(stack)
    /\ ContextsUnchanged /\ vars' = vars

HeaderAccepted == ev'.kind = "header" /\ exc' = NoPending /\ PcAdvances

\* C14: else fails with a Syntax error when no IfContext is open or
\* in_else is already true; endif fails when no IfContext is open; catch
\* fails when no TryContext is open, when in_catch is already true or when
\* it has more than one argument; endtry fails when no TryContext is open.
\* A failure leaves the three contexts and the store unchanged; otherwise
\* else only sets in_else, endif only closes the IfContext, catch enters
\* the catch section and endtry only closes the TryContext.
C14_ClosersAndMiddles ==
    [][/\ (LineReady /\ Branch(CurLine) = "else")
          => IF ~if_ctx.open \/ if_ctx.in_else THEN HeaderRejected
             ELSE /\ HeaderAccepted
                  /\ if_ctx' = [if_ctx EXCEPT !.in_else = TRUE]
                  /\ UNCHANGED <<while_ctx, try_ctx, vars>>
       /\ (LineReady /\ Branch(CurLine) = "endif")
          => IF ~if_ctx.open THEN HeaderRejected
             ELSE /\ HeaderAccepted
                  /\ ~if_ctx'.open
                  /\ UNCHANGED <<while_ctx, try_ctx, vars>>
       /\ (LineReady /\ Branch(CurLine) = "catch")
          => IF ~try_ctx.open \/ try_ctx.in_catch \/ Len(CurLine.words) > 2
             THEN HeaderRejected
             ELSE /\ HeaderAccepted
                  /\ try_ctx'.open /\ try_ctx'.in_catch
                  /\ try_ctx'.has_error = try_ctx.has_error
                  /\ try_ctx'.err_msg = try_ctx.err_msg
                  /\ UNCHANGED <<if_ctx, while_ctx>>
       /\ (LineReady /\ Branch(CurLine) = "endtry")
          => IF ~try_ctx.open THEN HeaderRejected
             ELSE /\ HeaderAccepted
                  /\ ~try_ctx'.open
                  /\ UNCHANGED <<if_ctx, while_ctx, vars>>
      ]_allvars

\* A catch with two arguments has failed in the try section of an open TRY.
C14_Witness ==
    /\ phase = "failed" /\ ev.kind = "raise" /\ ev.err = "Syntax"
    /\ ev.line = L(0, <<"catch", "e", "f">>)
    /\ try_ctx.open /\ ~try_ctx.in_catch /\ try_ctx.err_name = None

\* C15: a successful "catch name" binds name at once, as a str, to the error
\* message the try section captured, or to the empty string when the try
\* section raised no error; a successful catch without an argument leaves the
\* store unchanged.
C15_CatchBindsErrorVariable ==
    [][(LineReady /\ Branch(CurLine) = "catch" /\ ev'.kind = "header")
        => IF Len(CurLine.words) = 2
           THEN vars' = SetVar(vars, CurLine.words[2],
                               [type  |-> "str",
                                value |-> StrV(IF try_ctx.has_error
                                               THEN try_ctx.err_msg ELSE "")])
           ELSE vars' = vars]_allvars

\* "catch e" has just bound e to the message of an error the try section
\* captured.
C15_Witness ==
    /\ ev.kind = "header" /\ ev.line = L(0, <<"catch", "e">>)
    /\ try_ctx.open /\ try_ctx.in_catch /\ try_ctx.has_error
    /\ try_ctx.err_msg # "" /\ try_ctx.err_msg # None
    /\ "e" \in DOMAIN vars
    /\ vars["e"] = [type |-> "str", value |-> StrV(try_ctx.err_msg)]

\* A line "<type> <name> <value...>" at the prompt.
IsDeclaration(line) ==
    /\ line.indent = 0 /\ Len(line.words) >= 3
    /\ Lower(line.words[1]) \in type_keywords

DeclaredValueText(line) == JoinWords(SubSeq(line.words, 3, Len(line.words)))

ValidValueText(t, v) == t = "str" \/ IsIntText(v)

\* C16: a declaration of an existing variable with another type fails with
\* a Runtime error and leaves the store unchanged; a declaration with the
\* type the variable has and a valid value succeeds and replaces the value,
\* the type staying what it was.
C16_Redeclaration ==
    [][(/\ phase = "repl" /\ line_no' = line_no + 1
        /\ IsDeclaration(ev'.line)
        /\ ev'.line.words[2] \in DOMAIN vars)
        => LET t == Lower(ev'.line.words[1])
               n == ev'.line.words[2]
               v == DeclaredValueText(ev'.line)
           IN  IF vars[n].type # t
               THEN /\ ev'.ran /\ ev'.kind = "raise" /\ ev'.err = "Runtime"
                    /\ vars' = vars
               ELSE ValidValueText(t, v)
                    => /\ ev'.ran /\ ev'.err = ""
                       /\ DOMAIN vars' = DOMAIN vars
                       /\ \A m \in DOMAIN vars \ {n} : vars'[m] = vars[m]
                       /\ vars'[n].type = vars[n].type
                       /\ vars'[n].value = IF t = "str" THEN StrV(StripQuotes(v))
                                           ELSE NumV(IntOfText(v))]_allvars

\* "str x 1" has just failed on the int variable x, which still holds 1.
C16_Witness ==
    /\ ev.mode = "repl" /\ ev.kind = "raise" /\ ev.err = "Runtime"
    /\ ev.line = L(0, <<"str", "x", "1">>)
    /\ "x" \in DOMAIN vars
    /\ vars["x"] = [type |-> "int", value |-> NumV(1)]

\* C17: openfile closes the three contexts before the first line of the
\* included file runs; when the included file has run to its end the three
\* contexts are closed, whatever was open before the command, and nothing
\* reopens what the caller had; the store is shared: no step removes a
\* variable, and the return hands the store of the included file to the
\* caller as it is.
C17_IncludeResetsContextsSharesStore ==
    [][/\ (LineReady /\ ev'.kind = "call" /\ exc' = NoPending)
          => /\ Len(stack') = Len(stack) + 1
             /\ ~if_ctx'.open /\ ~while_ctx'.open /\ ~try_ctx'.open
             /\ \A n \in DOMAIN vars : n \in DOMAIN vars'
       /\ (Len(stack) >= 2 /\ ev'.kind = "return" /\ ev'.mode = "eof")
          => /\ ~if_ctx'.open /\ ~while_ctx'.open /\ ~try_ctx'.open
             /\ vars' = vars
             /\ stack' = [Front(stack) EXCEPT ![Len(stack) - 1].pc = @ + 1]
       /\ (stack # <<>>) => \A n \in DOMAIN vars : n \in DOMAIN vars'
      ]_allvars

\* The openfile line in the body of an open IF has returned: inc.ba
\* declared x, the caller sees it, and the IF is no longer open.
C17_Witness ==
    /\ ev.mode = "eof" /\ ev.kind = "return"
    /\ ev.line = L(1, <<"openfile", "inc.ba">>)
    /\ Len(stack) = 1 /\ Top.file = "main.ba" /\ Top.pc = 2
    /\ files["main.ba"].lines[1] = L(0, <<"if", "1", "=", "1">>)
    /\ files["inc.ba"].lines = <<L(0, <<"int", "x", "0">>)>>
    /\ "x" \in DOMAIN vars
    /\ NoContextOpen

\* A step of the prompt loop: execute_line has handled ev'.line.
PromptStep == phase = "repl" /\ line_no' = line_no + 1 /\ ev'.mode = "repl"

\* The line reaches the head test of execute_line: it is not blank, not a
\* comment, and it lexes.
ReachesHeadTest(line) == ~IsBlankOrComment(line) /\ ~ShlexFails(line)

\* C18: execute_line rejects with a Syntax error every line whose head is
\* while or endwhile, at any indentation and in any context state; the
\* contexts and the store are unchanged, and no line handled by
\* execute_line itself opens a WhileContext.
C18_PromptHasNoLoops ==
    [][PromptStep
        => /\ (ReachesHeadTest(ev'.line)
               /\ head_l(ev'.line) \in {"while", "endwhile"})
              => /\ ev'.kind = "raise" /\ ev'.err = "Syntax" /\ ~ev'.ran
                 /\ stack' = stack
                 /\ ContextsUnchanged /\ vars' = vars
           /\ while_ctx'.open => while_ctx.open]_allvars

\* A while header typed at the prompt inside an open IF has been rejected.
C18_Witness ==
    /\ phase = "repl" /\ ev.mode = "repl"
    /\ ev.kind = "raise" /\ ev.err = "Syntax"
    /\ ev.line = L(0, <<"while", "not", "x">>)
    /\ if_ctx.open /\ ~while_ctx.open /\ stack = <<>>

\* C19: at the prompt an error aborts only the statement that raised it:
\* after execute_line raises a Syntax or Runtime error the three contexts
\* and the store are exactly as they were before that line, and the prompt
\* goes on taking lines.
C19_PromptErrorLeavesStateAlone ==
    [][(PromptStep /\ ev'.kind = "raise" /\ ev'.err \in {"Syntax", "Runtime"})
        => /\ ContextsUnchanged /\ vars' = vars
           /\ phase' = "repl" /\ stack' = <<>> /\ exc' = NoPending]_allvars

\* The condition of an if header typed at the prompt is evaluated when no
\* IfContext and no TryContext is open.
CondTokens(line) == Tail(line.words)

CondEvaluated ==
    /\ PromptStep /\ ev'.line.indent = 0
    /\ Len(ev'.line.words) >= 1 /\ ev'.line.words[1] = "if"
    /\ ~if_ctx.open /\ ~try_ctx.open

WellFormedCondition(t) ==
    \/ Len(t) = 2 /\ Lower(t[1]) = "not"
    \/ Len(t) = 3

NonNumericOperand(t) ==
    \/ ~IsNumeric(_resolve(Self, t[1]))
    \/ ~IsNumeric(_resolve(Self, t[3]))

\* C20: the condition evaluator fails with a Syntax error for every token
\* list that is neither "not <value>" nor "<lhs> <op> <rhs>", and for every
\* condition of three tokens whose operator is none of = != < > <= >=,
\* whatever its operands are; it fails with a Runtime error exactly when
\* the operator is one of < > <= >= and an operand is not numeric.
C20_ConditionErrors ==
    [][CondEvaluated
        => LET t == CondTokens(ev'.line)
           IN  /\ ~WellFormedCondition(t) => ev'.err = "Syntax"
               /\ (Len(t) = 3 /\ Lower(t[1]) # "not"
                   /\ t[2] \notin {"=", "!=", "<", ">", "<=", ">="})
                  => ev'.err = "Syntax"
               /\ ev'.err = "Runtime"
                  <=> (/\ Len(t) = 3 /\ Lower(t[1]) # "not"
                       /\ t[2] \in OrderingOps
                       /\ NonNumericOperand(t))]_allvars

\* C21: a line with malformed quoting fails with a Syntax error, in the
\* file runner and at the prompt, in every context state, also when the
\* line is indented inside a try section and when it is read by the forward
\* scan of a false while header.
C21_MalformedQuotingIsSyntaxError ==
    [][/\ (LineReady /\ Branch(CurLine) = "lexerr")
          => /\ ev'.kind = "raise" /\ ev'.err = "Syntax"
             /\ ev'.lno = Top.pc + 1
       /\ (AtWhileHeader /\ ~WhileHeaderTrue /\ ~ScanLexes)
          => ev'.kind = "raise" /\ ev'.err = "Syntax"
       /\ (PromptStep /\ ShlexFails(ev'.line))
          => /\ ev'.kind = "raise" /\ ev'.err = "Syntax"
             /\ ev'.lno = line_no + 1]_allvars

\* The trimmed content of the line is empty or starts with a comment marker.
EmptyOrCommentLine(line) ==
    \/ line.words = <<>>
    \/ line.words[1] \in {"#", "BQBQ"}

\* C22: a line whose trimmed content is empty or starts with a comment
\* marker is a no-op in every state, at any indent and with any context
\* open or none: no error, the store and the contexts unchanged, and in a
\* file the program counter one further.
C22_BlankAndCommentAreNoOps ==
    [][/\ (LineReady /\ EmptyOrCommentLine(CurLine))
          => /\ ev'.err = "" /\ exc' = NoPending /\ ~ev'.ran
             /\ PcAdvances
             /\ ContextsUnchanged /\ vars' = vars
       /\ (PromptStep /\ EmptyOrCommentLine(ev'.line))
          => /\ ev'.err = "" /\ exc' = NoPending /\ ~ev'.ran
             /\ stack' = stack /\ phase' = phase
             /\ ContextsUnchanged /\ vars' = vars]_allvars

\* An indented empty line typed at the prompt inside an open try section
\* has changed nothing.
C22_Witness ==
    /\ phase = "repl" /\ ev.mode = "repl" /\ ev.kind = "noop"
    /\ ev.line = L(1, <<>>)
    /\ try_ctx.open /\ ~try_ctx.in_catch /\ ~try_ctx.has_error
    /\ stack = <<>>

\* The endwhile at pc finds its stored condition true.
EndwhileLoopsBack ==
    /\ Branch(CurLine) = "endwhile" /\ while_ctx.open
    /\ _eval_condition_tokens(Self, while_ctx.cond_tokens, Top.pc + 1)
           = CondOk(TRUE)

\* No line of the file is a while header or an openfile command.
NoLoopNoInclude(lines) ==
    \A i \in 1..Len(lines) :
        lines[i].words # <<>>
            => Lower(lines[i].words[1]) \notin {"while", "openfile"}

\* C23: in run_file the program counter strictly increases at every step
\* except an endwhile whose stored condition is true, the only move that
\* does not go forward; in a file without while header and without openfile
\* every step goes forward and no line is dispatched twice.
C23_ProgramCounterMovesForward ==
    [][/\ (LineReady /\ Len(stack') = Len(stack))
          => IF EndwhileLoopsBack
             THEN /\ stack'[Len(stack)].pc = while_ctx.start_pc + 1
                  /\ stack'[Len(stack)].pc <= Top.pc
             ELSE stack'[Len(stack)].pc > Top.pc
       /\ (exc.kind # "" /\ stack # <<>> /\ Len(stack') = Len(stack))
          => stack'[Len(stack)].pc > Top.pc
       /\ (Len(stack) >= 2 /\ ev'.kind = "return" /\ ev'.mode = "eof")
          => stack'[Len(stack) - 1].pc > stack[Len(stack) - 1].pc
       /\ (LineReady /\ Top.file = "main.ba" /\ Len(stack) = 1
           /\ NoLoopNoInclude(files["main.ba"].lines))
          => /\ ~EndwhileLoopsBack
             /\ Len(stack') = 1 => stack'[1].pc > Top.pc
             /\ \A k \in 1..Len(files["main.ba"].lines) :
                   Hits(dispatched', "main.ba", k) <= 1
      ]_allvars

\* An endwhile has found its condition true and moved back to the line
\* after the while header.
C23_Witness ==
    /\ Len(stack) = 1 /\ ev.mode = "file" /\ ev.kind = "header"
    /\ ev.line = L(0, <<"endwhile">>)
    /\ while_ctx.open /\ Top.pc = while_ctx.start_pc + 1
    /\ Top.pc < ev.lno - 1
    /\ passes >= 2

\* The line at pc is a body line that the catch section executes, and the
\* error variable of the catch is in the store.
CatchBodyLineRuns ==
    /\ LineReady /\ IsBodyLine(CurLine)
    /\ ~if_ctx.open /\ ~while_ctx.open
    /\ try_ctx.open /\ try_ctx.in_catch /\ try_ctx.has_error
    /\ try_ctx.err_name # None /\ try_ctx.err_name \in DOMAIN vars

\* C24: once "catch name" has bound name, a catch-section body line changes
\* the store only through its own effect: it works on the store as the
\* line before it left it, so a value a catch body line has given to name
\* is what the next catch body line finds.
C24_RebindingIsIdempotent ==
    [][CatchBodyLineRuns
        => \E raw \in RawInputs :
              LET r == Dispatch(Self, CurLine, Top.pc + 1, raw)
              IN  vars' = r.s.vars]_allvars

\* C25: a variable that exists in the store keeps the type it was created
\* with: no operation, be it a declaration, an input or the binding of
\* "catch name", leaves an existing name in the store with another type.
C25_TypesAreKept ==
    [][\A n \in DOMAIN vars :
          n \in DOMAIN vars' => vars'[n].type = vars[n].type]_allvars

\* C26: at the top of every iteration of the loop of run_file 0 <= pc <= n;
\* and while a WhileContext is open, its start_pc is the index of an
\* indent-0 while header of the file being run and start_pc < pc, so the
\* target start_pc + 1 of the backward jump is a position of the file not
\* after the endwhile that jumps.
C26_ProgramCounterAndStartPc ==
    (stack # <<>> /\ exc.kind = "")
        => /\ 0 <= Top.pc /\ Top.pc <= Len(TopLines)
           /\ while_ctx.open
              => /\ 0 <= while_ctx.start_pc
                 /\ while_ctx.start_pc < Top.pc
                 /\ while_ctx.start_pc + 1 <= Len(TopLines)
                 /\ LET hdr == TopLines[while_ctx.start_pc + 1]
                    IN  /\ hdr.indent = 0 /\ hdr.words # <<>>
                        /\ Lower(hdr.words[1]) = "while"
                        /\ while_ctx.cond_tokens = Tail(hdr.words)

\* A loop whose header is line 2 is open and its endwhile, line 4, has
\* jumped back to line 3.
C26_Witness ==
    /\ Len(stack) = 1 /\ exc.kind = ""
    /\ while_ctx.open /\ while_ctx.start_pc = 1 /\ Top.pc = 2
    /\ ev.line = L(0, <<"endwhile">>) /\ ev.lno = 4 /\ ev.kind = "header"
    /\ TopLines[2] = L(0, <<"while", "not", "x">>)

\* The lines of a program fed one at a time, from line i on, to
\* execute_line on interpreter s, up to the first error: the interpreter
\* reached and the error (NoExc when every line was accepted).
RECURSIVE ReplFeed(_, _, _)
ReplFeed(s, lines, i) ==
    IF i > Len(lines) THEN [s |-> s, exc |-> NoExc]
    ELSE LET r == execute_line(s, lines[i], i, "1")
         IN  IF r.exc # NoExc THEN [s |-> r.s, exc |-> r.exc]
             ELSE ReplFeed(r.s, lines, i + 1)

\* No line is a while, an endwhile or an openfile.
StraightProgram(lines) ==
    \A i \in 1..Len(lines) :
        lines[i].words # <<>>
            => Lower(lines[i].words[1]) \notin {"while", "endwhile", "openfile"}

\* C27: for a program without while, endwhile and openfile, feeding its
\* lines one at a time to execute_line on a fresh interpreter gives, after
\* each line up to the first error, the store and the if/try contexts that
\* run_file has after that line, and the two raise their first error on
\* the same line with the same kind of error.
C27_PromptAgreesWithFile ==
    [][(/\ LineReady /\ Len(stack) = 1 /\ Top.file = "main.ba"
        /\ StraightProgram(SubSeq(TopLines, 1, Top.pc + 1)))
        => LET fed == ReplFeed(NewInterp, SubSeq(TopLines, 1, Top.pc + 1), 1)
           IN  IF ev'.kind = "raise"
               THEN fed.exc.kind = ev'.err
               ELSE /\ fed.exc = NoExc
                    /\ fed.s.vars = vars'
                    /\ fed.s.if_ctx = if_ctx'
                    /\ fed.s.try_ctx = try_ctx']_allvars

====
